---- MODULE Spec2Model ----
(***************************************************************************)
(* Blockdata constants of rust-tapyrus (src/blockdata/constants.rs): the   *)
(* consensus constants, max_money, the genesis transaction and the genesis *)
(* block of every network, called by any number of concurrent callers.     *)
(*                                                                         *)
(* Values wider than the model checker's integers (u64 amounts, the u32    *)
(* value 0xFFFFFFFF) are kept as little-endian byte sequences of the       *)
(* type's width, which is also their consensus encoding.                   *)
(***************************************************************************)
EXTENDS Integers, Sequences, FiniteSets, TLC

\* Number of concurrent callers of the library.
NumCallers == 2

Callers == 1..NumCallers

\* network::constants::Network, the closed enumeration matched in genesis_block.
Network == {"Bitcoin", "Testnet", "Regtest", "Paradium"}

(***************************************************************************)
(* Fixed-width unsigned arithmetic on little-endian byte sequences.        *)
(***************************************************************************)

\* The w low bytes of the non-negative integer n, least significant first.
RECURSIVE LE(_, _)
LE(n, w) == IF w = 0 THEN << >> ELSE <<n % 256>> \o LE(n \div 256, w - 1)

U64(n) == LE(n, 8)

\* Column k (0-based) of the schoolbook product of the byte sequences a and b.
RECURSIVE MulColumn(_, _, _, _)
MulColumn(a, b, k, i) ==
  IF i > Len(a) THEN 0
  ELSE (IF k - i + 2 >= 1 /\ k - i + 2 <= Len(b) THEN a[i] * b[k - i + 2] ELSE 0)
       + MulColumn(a, b, k, i + 1)

\* The full product of a and b, Len(a) + Len(b) bytes, nothing discarded.
RECURSIVE MulWide(_, _, _, _)
MulWide(a, b, k, carry) ==
  IF k = Len(a) + Len(b) THEN << >>
  ELSE LET s == MulColumn(a, b, k, 1) + carry
       IN  <<s % 256>> \o MulWide(a, b, k + 1, s \div 256)

IsZero(bytes) == \A i \in 1..Len(bytes) : bytes[i] = 0

\* u64 * u64 as the machine computes it: the product modulo 2^64.
WrappingMulU64(a, b) == SubSeq(MulWide(a, b, 0, 0), 1, 8)

\* Whether the mathematical product of two u64 values exceeds u64::MAX.
MulOverflowsU64(a, b) == ~IsZero(SubSeq(MulWide(a, b, 0, 0), 9, 16))

(***************************************************************************)
(* Constants, lines 37-51.                                                 *)
(***************************************************************************)

\* pub const MAX_SEQUENCE: u32 = 0xFFFFFFFF
MAX_SEQUENCE == <<255, 255, 255, 255>>

\* pub const COIN_VALUE: u64 = 100_000_000
COIN_VALUE == 100000000

\* pub const MAX_BLOCK_WEIGHT: u32 = 4_000_000
MAX_BLOCK_WEIGHT == 4000000

\* pub const MIN_TRANSACTION_WEIGHT: u32 = 4 * 60
MIN_TRANSACTION_WEIGHT == 4 * 60

\* A slip: the cap counted in whole coins, the factor COIN_VALUE left out.
max_moneyInCoins(network) == U64(21000000)

\* pub fn max_money(_: Network) -> u64 { 21_000_000 * COIN_VALUE }
max_money(network) == WrappingMulU64(U64(21000000), U64(COIN_VALUE))

(***************************************************************************)
(* Literals of the source and the conversions applied to them.             *)
(***************************************************************************)

\* ASCII: the digits start at 0x30, the capitals at 0x41, the small letters at
\* 0x61; the message also holds the space (0x20) and the slash (0x2f).
ASCII_DIGITS == << "0", "1", "2", "3", "4", "5", "6", "7", "8", "9" >>

ASCII_UPPER ==
  << "A", "B", "C", "D", "E", "F", "G", "H", "I", "J", "K", "L", "M",
     "N", "O", "P", "Q", "R", "S", "T", "U", "V", "W", "X", "Y", "Z" >>

ASCII_LOWER ==
  << "a", "b", "c", "d", "e", "f", "g", "h", "i", "j", "k", "l", "m",
     "n", "o", "p", "q", "r", "s", "t", "u", "v", "w", "x", "y", "z" >>

IndexOf(table, ch) == CHOOSE i \in 1..Len(table) : table[i] = ch

InTable(table, ch) == \E i \in 1..Len(table) : table[i] = ch

\* The byte a character of a byte-string literal stands for.
AsciiByte(ch) ==
  CASE ch = " " -> 32
    [] ch = "/" -> 47
    [] InTable(ASCII_DIGITS, ch) -> 47 + IndexOf(ASCII_DIGITS, ch)
    [] InTable(ASCII_UPPER, ch) -> 64 + IndexOf(ASCII_UPPER, ch)
    [] InTable(ASCII_LOWER, ch) -> 96 + IndexOf(ASCII_LOWER, ch)

ByteString(chars) == [i \in 1..Len(chars) |-> AsciiByte(chars[i])]

HEX_DIGITS ==
  << "0", "1", "2", "3", "4", "5", "6", "7", "8", "9", "a", "b", "c", "d", "e", "f" >>

IsHexDigit(ch) == InTable(HEX_DIGITS, ch)

HexValue(ch) == IndexOf(HEX_DIGITS, ch) - 1

\* util::misc::hex_bytes and hex::decode: two digits per byte, high nibble
\* first; Err on an odd length or a character that is no hex digit.
hex_bytes(chars) ==
  IF Len(chars) % 2 # 0 \/ \E i \in 1..Len(chars) : ~IsHexDigit(chars[i])
  THEN [ok |-> FALSE, bytes |-> << >>]
  ELSE [ok |-> TRUE,
        bytes |-> [i \in 1..(Len(chars) \div 2) |->
                     16 * HexValue(chars[2 * i - 1]) + HexValue(chars[2 * i])]]

\* Result::unwrap on the result of hex_bytes; "panic" when it is an Err.
Unwrap(r) == IF r.ok THEN r.bytes ELSE "panic"

\* The byte-string literal pushed into the genesis script_sig, line 67.
GENESIS_MESSAGE ==
  << "T", "h", "e", " ", "T", "i", "m", "e", "s", " ", "0", "3", "/", "J", "a", "n",
     "/", "2", "0", "0", "9", " ", "C", "h", "a", "n", "c", "e", "l", "l", "o", "r",
     " ", "o", "n", " ", "b", "r", "i", "n", "k", " ", "o", "f", " ", "s", "e", "c",
     "o", "n", "d", " ", "b", "a", "i", "l", "o", "u", "t", " ", "f", "o", "r", " ",
     "b", "a", "n", "k", "s" >>

\* The public key literal of the genesis output, line 78.
GENESIS_PUBKEY_HEX ==
  << "0", "4", "6", "7", "8", "a", "f", "d", "b", "0", "f", "e", "5", "5", "4", "8",
     "2", "7", "1", "9", "6", "7", "f", "1", "a", "6", "7", "1", "3", "0", "b", "7",
     "1", "0", "5", "c", "d", "6", "a", "8", "2", "8", "e", "0", "3", "9", "0", "9",
     "a", "6", "7", "9", "6", "2", "e", "0", "e", "a", "1", "f", "6", "1", "d", "e",
     "b", "6", "4", "9", "f", "6", "b", "c", "3", "f", "4", "c", "e", "f", "3", "8",
     "c", "4", "f", "3", "5", "5", "0", "4", "e", "5", "1", "e", "c", "1", "1", "2",
     "d", "e", "5", "c", "3", "8", "4", "d", "f", "7", "b", "a", "0", "b", "8", "d",
     "5", "7", "8", "a", "4", "c", "7", "0", "2", "b", "6", "b", "f", "1", "1", "d",
     "5", "f" >>

\* The serialized script_sig the test expects, line 184.
EXPECTED_SCRIPT_SIG_HEX ==
  << "4", "d", "0", "4", "f", "f", "f", "f", "0", "0", "1", "d", "0", "1", "0", "4",
     "4", "5", "5", "4", "6", "8", "6", "5", "2", "0", "5", "4", "6", "9", "6", "d",
     "6", "5", "7", "3", "2", "0", "3", "0", "3", "3", "2", "f", "4", "a", "6", "1",
     "6", "e", "2", "f", "3", "2", "3", "0", "3", "0", "3", "9", "2", "0", "4", "3",
     "6", "8", "6", "1", "6", "e", "6", "3", "6", "5", "6", "c", "6", "c", "6", "f",
     "7", "2", "2", "0", "6", "f", "6", "e", "2", "0", "6", "2", "7", "2", "6", "9",
     "6", "e", "6", "b", "2", "0", "6", "f", "6", "6", "2", "0", "7", "3", "6", "5",
     "6", "3", "6", "f", "6", "e", "6", "4", "2", "0", "6", "2", "6", "1", "6", "9",
     "6", "c", "6", "f", "7", "5", "7", "4", "2", "0", "6", "6", "6", "f", "7", "2",
     "2", "0", "6", "2", "6", "1", "6", "e", "6", "b", "7", "3" >>

\* The serialized script_pubkey the test expects, line 189.
EXPECTED_SCRIPT_PUBKEY_HEX ==
  << "4", "3", "4", "1", "0", "4", "6", "7", "8", "a", "f", "d", "b", "0", "f", "e",
     "5", "5", "4", "8", "2", "7", "1", "9", "6", "7", "f", "1", "a", "6", "7", "1",
     "3", "0", "b", "7", "1", "0", "5", "c", "d", "6", "a", "8", "2", "8", "e", "0",
     "3", "9", "0", "9", "a", "6", "7", "9", "6", "2", "e", "0", "e", "a", "1", "f",
     "6", "1", "d", "e", "b", "6", "4", "9", "f", "6", "b", "c", "3", "f", "4", "c",
     "e", "f", "3", "8", "c", "4", "f", "3", "5", "5", "0", "4", "e", "5", "1", "e",
     "c", "1", "1", "2", "d", "e", "5", "c", "3", "8", "4", "d", "f", "7", "b", "a",
     "0", "b", "8", "d", "5", "7", "8", "a", "4", "c", "7", "0", "2", "b", "6", "b",
     "f", "1", "1", "d", "5", "f", "a", "c" >>

(***************************************************************************)
(* blockdata::script: the builder and the script's consensus encoding.     *)
(***************************************************************************)

\* opcodes::all::OP_CHECKSIG
OP_CHECKSIG == 172

\* opcodes::all::OP_PUSHDATA1, the first length-prefixed push opcode.
OP_PUSHDATA1 == 76

\* script::Builder::new(): an empty buffer.
BuilderNew == << >>

\* Script::new(): the empty script.
ScriptNew == << >>

\* The minimal signed little-endian bytes of a non-zero magnitude: low bytes
\* first; when the last byte has its high bit set, one more byte carries the sign.
RECURSIVE ScriptIntBytes(_, _)
ScriptIntBytes(abs, neg) ==
  IF abs > 255 THEN <<abs % 256>> \o ScriptIntBytes(abs \div 256, neg)
  ELSE IF abs >= 128 THEN <<abs, IF neg THEN 128 ELSE 0>>
  ELSE <<abs + (IF neg THEN 128 ELSE 0)>>

build_scriptint(n) ==
  IF n = 0 THEN << >> ELSE ScriptIntBytes(IF n < 0 THEN -n ELSE n, n < 0)

\* Builder::push_slice: the shortest push of the data, then the data.
push_slice(builder, data) ==
  LET n == Len(data)
      prefix == IF n < OP_PUSHDATA1 THEN <<n>>
                ELSE IF n < 256 THEN <<OP_PUSHDATA1, n>>
                ELSE IF n < 65536 THEN <<OP_PUSHDATA1 + 1>> \o LE(n, 2)
                ELSE <<OP_PUSHDATA1 + 2>> \o LE(n, 4)
  IN  builder \o prefix \o data

\* Builder::push_scriptint: the integer's bytes, pushed as a slice.
push_scriptint(builder, n) == push_slice(builder, build_scriptint(n))

\* Builder::push_opcode: the opcode's byte, verbatim.
push_opcode(builder, op) == Append(builder, op)

\* Builder::into_script: the buffer becomes the script.
into_script(builder) == builder

\* consensus VarInt of a length.
VarInt(n) ==
  IF n < 253 THEN <<n>>
  ELSE IF n < 65536 THEN <<253>> \o LE(n, 2)
  ELSE <<254>> \o LE(n, 4)

\* consensus::encode::serialize of a script or byte vector: length, then bytes.
serialize(script) == VarInt(Len(script)) \o script

(***************************************************************************)
(* blockdata::transaction: the two identifiers of a transaction.           *)
(***************************************************************************)

\* Default::default() of an identifier: 32 zero bytes.
ZeroHash == [i \in 1..32 |-> 0]

\* OutPoint::null(): all-zero txid, vout = u32::max_value().
OutPointNull == [txid |-> ZeroHash, vout |-> <<255, 255, 255, 255>>]

\* The double-hash primitive, a black box: the digest of a byte sequence is
\* kept as the injective image of its preimage (no collisions).
sha256d(bytes) == [preimage |-> bytes]

RECURSIVE Concat(_)
Concat(seqs) == IF seqs = << >> THEN << >> ELSE Head(seqs) \o Concat(Tail(seqs))

SerializeTxIn(txin) ==
  txin.previous_output.txid \o txin.previous_output.vout
    \o serialize(txin.script_sig) \o txin.sequence

SerializeTxOut(txout) == txout.value \o serialize(txout.script_pubkey)

SerializeWitness(txin) ==
  VarInt(Len(txin.witness))
    \o Concat([i \in 1..Len(txin.witness) |-> serialize(txin.witness[i])])

\* The full serialization: version, inputs, outputs, lock time, and the
\* witness stacks (behind the marker and flag bytes) when any is non-empty.
SerializeTx(tx) ==
  LET ins == VarInt(Len(tx.input))
               \o Concat([i \in 1..Len(tx.input) |-> SerializeTxIn(tx.input[i])])
      outs == VarInt(Len(tx.output))
                \o Concat([i \in 1..Len(tx.output) |-> SerializeTxOut(tx.output[i])])
      segwit == \E i \in 1..Len(tx.input) : tx.input[i].witness # << >>
  IN  IF segwit
      THEN LE(tx.version, 4) \o <<0, 1>> \o ins \o outs
             \o Concat([i \in 1..Len(tx.input) |-> SerializeWitness(tx.input[i])])
             \o LE(tx.lock_time, 4)
      ELSE LE(tx.version, 4) \o ins \o outs \o LE(tx.lock_time, 4)

\* The signature-stripped copy: every script_sig and witness emptied.
StripSignatures(tx) ==
  [tx EXCEPT !.input = [i \in 1..Len(tx.input) |->
                          [tx.input[i] EXCEPT !.script_sig = ScriptNew,
                                              !.witness = << >>]]]

\* Transaction::txid: the mutable identifier.
txid(tx) == sha256d(SerializeTx(tx))

\* Transaction::ntxid: the immutable identifier.
ntxid(tx) == sha256d(SerializeTx(StripSignatures(tx)))

(***************************************************************************)
(* bitcoin_genesis_tx, lines 54-88.                                        *)
(***************************************************************************)

\* let mut ret = Transaction { version: 1, lock_time: 0, input: vec![], output: vec![] }
TxBase == [version |-> 1, lock_time |-> 0, input |-> << >>, output |-> << >>]

\* A slip: the 4 pushed as the small-number opcode OP_PUSHNUM_4 (0x54), as
\* push_int would, instead of as the one-byte slice 01 04.
in_scriptPushInt ==
  into_script(
    push_slice(
      push_opcode(push_scriptint(BuilderNew, 486604799), 84),
      ByteString(GENESIS_MESSAGE)))

in_script ==
  into_script(
    push_slice(
      push_scriptint(push_scriptint(BuilderNew, 486604799), 4),
      ByteString(GENESIS_MESSAGE)))

GenesisTxIn ==
  [previous_output |-> OutPointNull,
   script_sig |-> in_script,
   sequence |-> MAX_SEQUENCE,
   witness |-> << >>]

out_script ==
  into_script(
    push_opcode(
      push_slice(BuilderNew, Unwrap(hex_bytes(GENESIS_PUBKEY_HEX))),
      OP_CHECKSIG))

\* A slip: 50 base units, the factor COIN_VALUE left out.
GenesisTxOutNoCoin == [value |-> U64(50), script_pubkey |-> out_script]

GenesisTxOut ==
  [value |-> WrappingMulU64(U64(50), U64(COIN_VALUE)),
   script_pubkey |-> out_script]

\* ret.input.push(TxIn { .. })
PushInput(tx) == [tx EXCEPT !.input = Append(@, GenesisTxIn)]

\* ret.output.push(TxOut { .. })
PushOutput(tx) == [tx EXCEPT !.output = Append(@, GenesisTxOut)]

\* The whole function, start to end.
bitcoin_genesis_tx == PushOutput(PushInput(TxBase))

(***************************************************************************)
(* genesis_block, lines 91-162: one arm per network.                       *)
(***************************************************************************)

\* A slip: the Bitcoin arm carrying the Testnet arm's time.
GenesisBitcoinTestnetTime(txdata) ==
  [header |-> [version |-> 1,
               prev_blockhash |-> ZeroHash,
               merkle_root |-> txid(txdata[1]),
               im_merkle_root |-> ntxid(txdata[1]),
               time |-> 1296688602,
               agg_pubkey |-> << >>,
               proof |-> [signature |-> ScriptNew]],
   txdata |-> txdata]

GenesisBitcoin(txdata) ==
  [header |-> [version |-> 1,
               prev_blockhash |-> ZeroHash,
               merkle_root |-> txid(txdata[1]),
               im_merkle_root |-> ntxid(txdata[1]),
               time |-> 1231006505,
               agg_pubkey |-> << >>,
               proof |-> [signature |-> ScriptNew]],
   txdata |-> txdata]

\* A slip: the Testnet arm with a non-empty aggregate public key.
GenesisTestnetWithKey(txdata) ==
  [GenesisBitcoin(txdata) EXCEPT !.header.time = 1296688602,
                                 !.header.agg_pubkey = <<2>>]

GenesisTestnet(txdata) ==
  [header |-> [version |-> 1,
               prev_blockhash |-> ZeroHash,
               merkle_root |-> txid(txdata[1]),
               im_merkle_root |-> ntxid(txdata[1]),
               time |-> 1296688602,
               agg_pubkey |-> << >>,
               proof |-> [signature |-> ScriptNew]],
   txdata |-> txdata]

\* A slip: the two roots of the Regtest arm exchanged.
GenesisRegtestRootsSwapped(txdata) ==
  [GenesisTestnet(txdata) EXCEPT !.header.merkle_root = ntxid(txdata[1]),
                                 !.header.im_merkle_root = txid(txdata[1])]

GenesisRegtest(txdata) ==
  [header |-> [version |-> 1,
               prev_blockhash |-> ZeroHash,
               merkle_root |-> txid(txdata[1]),
               im_merkle_root |-> ntxid(txdata[1]),
               time |-> 1296688602,
               agg_pubkey |-> << >>,
               proof |-> [signature |-> ScriptNew]],
   txdata |-> txdata]

\* A slip: the Paradium arm with header version 2.
GenesisParadiumVersion2(txdata) ==
  [GenesisBitcoin(txdata) EXCEPT !.header.version = 2,
                                 !.header.time = 1562925929]

\* A slip: the Paradium arm a plain copy of the Bitcoin arm, time included.
GenesisParadiumBitcoinCopy(txdata) == GenesisBitcoin(txdata)

GenesisParadium(txdata) ==
  [header |-> [version |-> 1,
               prev_blockhash |-> ZeroHash,
               merkle_root |-> txid(txdata[1]),
               im_merkle_root |-> ntxid(txdata[1]),
               time |-> 1562925929,
               agg_pubkey |-> << >>,
               proof |-> [signature |-> ScriptNew]],
   txdata |-> txdata]

\* match network { .. } applied to the arm's txdata.
GenesisArm(network, txdata) ==
  CASE network = "Bitcoin" -> GenesisBitcoin(txdata)
    [] network = "Testnet" -> GenesisTestnet(txdata)
    [] network = "Regtest" -> GenesisRegtest(txdata)
    [] network = "Paradium" -> GenesisParadium(txdata)

(***************************************************************************)
(* The callers.  Each call runs on its caller's own stack: ret, the        *)
(* transaction under construction, is a local of the call.  returned is    *)
(* the history of every (network, block) a call of genesis_block has       *)
(* returned; the program itself keeps no such record.                      *)
(***************************************************************************)

VARIABLES pc, net, ret, result, returned

vars == <<pc, net, ret, result, returned>>

NoValue == "none"

\* A frame in which no call has created ret yet; a created ret is <<tx>>.
NoTx == << >>

\* A slip: ret kept in one static buffer that every call uses.
RetSlotShared(c) == 1

\* Where the local ret of caller c's call lives: in c's own frame.
RetSlot(c) == c

Init ==
  /\ pc = [c \in Callers |-> "idle"]
  /\ net = [c \in Callers |-> NoValue]
  /\ ret = [c \in Callers |-> NoTx]
  /\ result = [c \in Callers |-> NoValue]
  /\ returned = {}

\* genesis_block(network) is entered; its arm calls bitcoin_genesis_tx, which
\* creates ret.
CallGenesisBlock(c, network) ==
  /\ pc[c] = "idle"
  /\ pc' = [pc EXCEPT ![c] = "tx_base"]
  /\ net' = [net EXCEPT ![c] = network]
  /\ ret' = [ret EXCEPT ![RetSlot(c)] = <<TxBase>>]
  /\ UNCHANGED <<result, returned>>

StepPushInput(c) ==
  /\ pc[c] = "tx_base"
  /\ pc' = [pc EXCEPT ![c] = "tx_input"]
  /\ ret' = [ret EXCEPT ![RetSlot(c)] = <<PushInput(@[1])>>]
  /\ UNCHANGED <<net, result, returned>>

StepPushOutput(c) ==
  /\ pc[c] = "tx_input"
  /\ pc' = [pc EXCEPT ![c] = "tx_output"]
  /\ ret' = [ret EXCEPT ![RetSlot(c)] = <<PushOutput(@[1])>>]
  /\ UNCHANGED <<net, result, returned>>

\* bitcoin_genesis_tx returns ret, which becomes txdata[0]; the arm builds
\* the block around it.
AssembleBlock(c) ==
  /\ pc[c] = "tx_output"
  /\ pc' = [pc EXCEPT ![c] = "block"]
  /\ result' = [result EXCEPT ![c] = GenesisArm(net[c], <<ret[RetSlot(c)][1]>>)]
  /\ UNCHANGED <<net, ret, returned>>

\* genesis_block returns the block to its caller.
ReturnBlock(c) ==
  /\ pc[c] = "block"
  /\ pc' = [pc EXCEPT ![c] = "idle"]
  /\ returned' = returned \cup {[network |-> net[c], block |-> result[c]]}
  /\ net' = [net EXCEPT ![c] = NoValue]
  /\ result' = [result EXCEPT ![c] = NoValue]
  /\ UNCHANGED ret

\* max_money(network), entered and computed in one step.
CallMaxMoney(c, network) ==
  /\ pc[c] = "idle"
  /\ pc' = [pc EXCEPT ![c] = "money"]
  /\ net' = [net EXCEPT ![c] = network]
  /\ result' = [result EXCEPT ![c] = max_money(network)]
  /\ UNCHANGED <<ret, returned>>

ReturnMoney(c) ==
  /\ pc[c] = "money"
  /\ pc' = [pc EXCEPT ![c] = "idle"]
  /\ net' = [net EXCEPT ![c] = NoValue]
  /\ result' = [result EXCEPT ![c] = NoValue]
  /\ UNCHANGED <<ret, returned>>

\* The steps of a call of genesis_block by caller c.
GenesisBlockStep(c) ==
  \/ \E network \in Network : CallGenesisBlock(c, network)
  \/ StepPushInput(c)
  \/ StepPushOutput(c)
  \/ AssembleBlock(c)
  \/ ReturnBlock(c)

\* The steps of a call of max_money by caller c.
MaxMoneyStep(c) ==
  \/ \E network \in Network : CallMaxMoney(c, network)
  \/ ReturnMoney(c)

\* One caller uses the library, call after call.
Next == GenesisBlockStep(1) \/ MaxMoneyStep(1)

Spec == Init /\ [][Next]_vars

\* Every caller calls genesis_block, again and again, in any interleaving.
NextConcurrent == \E c \in Callers : GenesisBlockStep(c)

SpecConcurrent == Init /\ [][NextConcurrent]_vars

(***************************************************************************)
(* What the calls have produced.                                           *)
(***************************************************************************)

\* Every (network, block) genesis_block has built: returned, or about to be.
Produced ==
  returned \cup {[network |-> net[c], block |-> result[c]] :
                   c \in {d \in Callers : pc[d] = "block"}}

\* Every transaction bitcoin_genesis_tx has returned: still in its caller's
\* hands, or inside a block.
GenesisTxs ==
  {ret[RetSlot(c)][1] : c \in {d \in Callers : pc[d] = "tx_output"}}
    \cup {r.block.txdata[1] : r \in Produced}

AllNetworksReturned == \A n \in Network : \E r \in returned : r.network = n

\* bytes * m + carry on a little-endian byte sequence, width kept.
RECURSIVE MulAddSmall(_, _, _)
MulAddSmall(bytes, m, carry) ==
  IF bytes = << >> THEN << >>
  ELSE LET s == Head(bytes) * m + carry
       IN  <<s % 256>> \o MulAddSmall(Tail(bytes), m, s \div 256)

\* The number written by decimal digits (most significant first), as w
\* little-endian bytes.
RECURSIVE DecimalLE(_, _)
DecimalLE(digits, w) ==
  IF digits = << >> THEN LE(0, w)
  ELSE MulAddSmall(DecimalLE(SubSeq(digits, 1, Len(digits) - 1), w), 10,
                   digits[Len(digits)])

AllZero(bytes) == \A i \in 1..Len(bytes) : bytes[i] = 0

(***************************************************************************)
(* The properties.                                                         *)
(***************************************************************************)

\* C1: every genesis block, of every network, holds exactly one transaction;
\* its merkle_root is the txid of that transaction and its im_merkle_root
\* the ntxid of that transaction.
GenesisMerkleRoots ==
  \A r \in Produced :
    /\ Len(r.block.txdata) = 1
    /\ r.block.header.merkle_root = txid(r.block.txdata[1])
    /\ r.block.header.im_merkle_root = ntxid(r.block.txdata[1])

\* The genesis block of every network has been returned, and the two
\* identifiers of its transaction differ.
GenesisMerkleRootsWitness ==
  /\ AllNetworksReturned
  /\ \A r \in returned : r.block.header.merkle_root # r.block.header.im_merkle_root

\* C2: the header of every genesis block has version 1, the all-zero
\* prev_blockhash, an empty agg_pubkey and a proof wrapping an empty script.
GenesisHeaderFixedFields ==
  \A r \in Produced :
    /\ r.block.header.version = 1
    /\ Len(r.block.header.prev_blockhash) = 32
    /\ AllZero(r.block.header.prev_blockhash)
    /\ r.block.header.agg_pubkey = << >>
    /\ r.block.header.proof = [signature |-> << >>]

GenesisHeaderFixedFieldsWitness ==
  /\ AllNetworksReturned
  /\ \E c \in Callers : pc[c] = "block" /\ result[c].header.version = 1

\* C3: the genesis transaction has version 1, lock_time 0, one input and one
\* output; the input spends the null OutPoint (zero txid, vout 0xFFFFFFFF)
\* with sequence MAX_SEQUENCE and no witness; the output is worth
\* 5,000,000,000 = 50 * COIN_VALUE.
GenesisTxShape ==
  \A tx \in GenesisTxs :
    /\ tx.version = 1
    /\ tx.lock_time = 0
    /\ Len(tx.input) = 1
    /\ Len(tx.output) = 1
    /\ Len(tx.input[1].previous_output.txid) = 32
    /\ AllZero(tx.input[1].previous_output.txid)
    /\ tx.input[1].previous_output.vout = [i \in 1..4 |-> 255]
    /\ tx.input[1].sequence = MAX_SEQUENCE
    /\ tx.input[1].witness = << >>
    /\ tx.output[1].value = DecimalLE(<<5, 0, 0, 0, 0, 0, 0, 0, 0, 0>>, 8)
    /\ ~MulOverflowsU64(U64(50), U64(COIN_VALUE))

\* bitcoin_genesis_tx has just returned to a caller, and an earlier block
\* carries the transaction too.
GenesisTxShapeWitness ==
  /\ \E c \in Callers : pc[c] = "tx_output" /\ Len(ret[RetSlot(c)][1].output) = 1
  /\ returned # {}

\* The timestamp the claim gives each network; for Regtest it names none.
ClaimedTime(n) ==
  CASE n = "Bitcoin" -> 1231006505
    [] n = "Testnet" -> 1296688602
    [] n = "Paradium" -> 1562925929

\* C4: header.time is 1231006505 for Bitcoin, 1296688602 for Testnet,
\* 1562925929 for Paradium and some fixed number for Regtest; two genesis
\* blocks of the same network never differ in time.
GenesisTimePerNetwork ==
  /\ \A r \in Produced :
       /\ r.block.header.time \in Nat
       /\ r.network # "Regtest" => r.block.header.time = ClaimedTime(r.network)
  /\ \A r1, r2 \in Produced :
       r1.network = r2.network => r1.block.header.time = r2.block.header.time

\* All four networks have been returned and one is being returned again.
GenesisTimePerNetworkWitness ==
  /\ AllNetworksReturned
  /\ \E c \in Callers : pc[c] = "block" /\ net[c] = "Regtest"

\* C5: script_sig is 04 ff ff 00 1d, 01 04, 45 and the 69 message bytes: 77
\* bytes, serialized behind the length 4d as the test's literal; script_pubkey
\* is 41, the 65 key bytes, ac: 67 bytes, serialized behind the length 43 as
\* the test's literal.
GenesisScriptsByteExact ==
  \A tx \in GenesisTxs :
    LET sig == tx.input[1].script_sig
        pk == tx.output[1].script_pubkey
    IN  /\ Len(ByteString(GENESIS_MESSAGE)) = 69
        /\ sig = <<4, 255, 255, 0, 29>> \o <<1, 4>> \o <<69>>
                   \o ByteString(GENESIS_MESSAGE)
        /\ Len(sig) = 77
        /\ serialize(sig) = <<77>> \o sig
        /\ serialize(sig) = Unwrap(hex_bytes(EXPECTED_SCRIPT_SIG_HEX))
        /\ Len(Unwrap(hex_bytes(GENESIS_PUBKEY_HEX))) = 65
        /\ pk = <<65>> \o Unwrap(hex_bytes(GENESIS_PUBKEY_HEX)) \o <<172>>
        /\ Len(pk) = 67
        /\ serialize(pk) = <<67>> \o pk
        /\ serialize(pk) = Unwrap(hex_bytes(EXPECTED_SCRIPT_PUBKEY_HEX))

\* A caller holds the transaction bitcoin_genesis_tx returned, both scripts
\* built.
GenesisScriptsByteExactWitness ==
  \E c \in Callers :
    /\ pc[c] = "tx_output"
    /\ ret[RetSlot(c)][1].input[1].script_sig # << >>
    /\ ret[RetSlot(c)][1].output[1].script_pubkey # << >>

\* C6: max_money returns 2,100,000,000,000,000 for every network, and the
\* product 21_000_000 * COIN_VALUE does not exceed u64::MAX: its 128-bit
\* value is the returned one.
MaxMoneyValue ==
  \A c \in Callers :
    pc[c] = "money" =>
      /\ result[c] = DecimalLE(<<2, 1, 0, 0, 0, 0, 0, 0, 0, 0, 0, 0, 0, 0, 0, 0>>, 8)
      /\ result[c] \o LE(0, 8) = MulWide(U64(21000000), U64(COIN_VALUE), 0, 0)
      /\ ~MulOverflowsU64(U64(21000000), U64(COIN_VALUE))

\* max_money has returned for Paradium after a genesis block was built.
MaxMoneyValueWitness ==
  /\ \E c \in Callers : pc[c] = "money" /\ net[c] = "Paradium"
  /\ returned # {}

\* No two returned blocks of one network differ.
ReturnedIsFunction ==
  \A r1, r2 \in Produced : r1.network = r2.network => r1.block = r2.block

\* A step of one caller leaves every other caller's position, argument,
\* transaction under construction and result as they were.
StepIsLocal ==
  \A c, d \in Callers :
    (c # d /\ pc'[c] # pc[c]) =>
      /\ pc'[d] = pc[d]
      /\ net'[d] = net[d]
      /\ result'[d] = result[d]
      /\ ret'[RetSlot(d)] = ret[RetSlot(d)]

\* C7: however the calls of genesis_block interleave, two calls for the same
\* network return the same block, and no step of a call touches what another
\* call works on.
GenesisBlockDeterministic == []ReturnedIsFunction /\ [][StepIsLocal]_vars

\* Two callers are about to return the block of a network that an earlier
\* call has already returned.
GenesisBlockDeterministicWitness ==
  \E c, d \in Callers :
    /\ c # d
    /\ pc[c] = "block" /\ pc[d] = "block"
    /\ net[c] = net[d]
    /\ \E r \in returned : r.network = net[c]

\* C9 as stated: the genesis blocks of two different networks differ in
\* header.time, hence are different blocks.
GenesisTimesPairwiseDistinct ==
  \A r1, r2 \in Produced :
    r1.network # r2.network =>
      /\ r1.block.header.time # r2.block.header.time
      /\ r1.block # r2.block

\* C9, amended: Testnet and Regtest share the time 1296688602 and their
\* genesis blocks are equal; any other two different networks differ in
\* header.time and in their blocks.
GenesisTimesDistinctButTestnetRegtest ==
  \A r1, r2 \in Produced :
    r1.network # r2.network =>
      IF {r1.network, r2.network} = {"Testnet", "Regtest"}
      THEN /\ r1.block.header.time = 1296688602
           /\ r1.block = r2.block
      ELSE /\ r1.block.header.time # r2.block.header.time
           /\ r1.block # r2.block

GenesisTimesDistinctWitness ==
  /\ AllNetworksReturned
  /\ \E c \in Callers : pc[c] = "block" /\ net[c] = "Testnet"

\* C10: the genesis blocks of any two networks hold the same txdata and the
\* same two roots, and differ in no field but header.time.
GenesisBlocksDifferOnlyInTime ==
  \A r1, r2 \in Produced :
    /\ r1.block.txdata = r2.block.txdata
    /\ r1.block.header.merkle_root = r2.block.header.merkle_root
    /\ r1.block.header.im_merkle_root = r2.block.header.im_merkle_root
    /\ [r1.block EXCEPT !.header.time = r2.block.header.time] = r2.block

\* All four networks returned, and a block is produced whose time differs
\* from a returned one's.
GenesisBlocksDifferOnlyInTimeWitness ==
  /\ AllNetworksReturned
  /\ \E c \in Callers :
       /\ pc[c] = "block"
       /\ \E r \in returned : r.block.header.time # result[c].header.time

====
